---------------------------- MODULE Spec2Model ----------------------------
(***************************************************************************)
(* A model of usync's RawRwLock (src/src/rwlock.rs): the lock word, the    *)
(* intrusive queue of waiters whose head lives in the word, and every      *)
(* atomic step of the acquire, release and unpark paths.                   *)
(*                                                                         *)
(* The build that is modelled is the x86/x86_64 one, the only target for   *)
(* which the file defines unlock_exclusive.  Two things the source leaves  *)
(* open are build parameters chosen in Init and never changed:             *)
(*   hle        whether feature "hardware-lock-elision" is compiled in;    *)
(*   unlockDef  which of the two unlock_exclusive definitions (both under  *)
(*              the same cfg, lines 83-93 and 95-104) the build uses.      *)
(* On x86 compare_exchange_weak is a lock cmpxchg and never fails          *)
(* spuriously, so every compare-exchange is modelled as a strong one.      *)
(***************************************************************************)
EXTENDS Integers, FiniteSets, Sequences, TLC

\* ------------------------------------------------------------------ bounds
\* Number of threads using the one lock.
NThreads == 3
\* Width of usize in bits, scaled down from 32/64 so that the largest reader
\* count (usize::MAX >> READER_SHIFT) is a number the model reaches.
UsizeBits == 6
\* How many shared guards one thread may hold at once (recursive try_read).
MaxHolds == 2
\* How many acquire calls (try_lock_*, lock_*) the threads make in all.
MaxCalls == 4
\* How many sender handles a channel gets in all (the original and clones).
MaxSenders == 3
\* How many sends (send or try_send) the sender handles start in all.
MaxSends == 3
\* The largest argument given to sync_channel.
MaxBound == 2

\* --------------------------------------------------------- program constants
UNLOCKED == 0
LOCKED == 1
READING == 2
QUEUED == 4
QUEUE_LOCKED == 8
READER_SHIFT == 4
ONE_READER == 2 ^ READER_SHIFT
SINGLE_READER == LOCKED + READING + ONE_READER

UsizeMod == 2 ^ UsizeBits
UsizeMax == UsizeMod - 1
MaxReaders == UsizeMax \div ONE_READER

Threads == 1 .. NThreads
\* Option<NonNull<Waiter>>: 0 is None, t is the thread-local Waiter of thread t.
NoWaiter == 0
WaiterRef == 0 .. NThreads

\* channel() takes no bound.
NoBound == -1
\* The sender handles of a channel: 1 is the one the constructor returns.
Handles == 1 .. MaxSenders
\* A message is <<handle, n>>: the n-th value handle passed to a send.
NoMessage == <<0, 0>>

\* ------------------------------------------------------------ bit arithmetic
\* state & m # 0, for a one-bit mask m.
Has(s, m) == (s \div m) % 2 = 1
\* state | m and state & !m, for a one-bit mask m.
Set(s, m) == IF Has(s, m) THEN s ELSE s + m
Clear(s, m) == IF Has(s, m) THEN s - m ELSE s
\* state & !Waiter::MASK (the four flag bits) and state >> READER_SHIFT.
LowBits(s) == s % ONE_READER
Upper(s) == s \div ONE_READER
\* The address of thread t's Waiter; Waiter::MASK keeps the bits above the flags.
WaiterPtr(t) == t * ONE_READER
\* (state & Waiter::MASK) as *mut Waiter, as a waiter reference.
HeadOf(s) == IF Upper(s) \in Threads THEN Upper(s) ELSE NoWaiter
\* Wrapping usize subtraction (fetch_sub).
WrapSub(a, b) == (a + UsizeMod - b) % UsizeMod
\* usize::wrapping_add, which is not what try_lock_shared_assuming calls.
WrappingAdd(a, b) == (a + b) % UsizeMod
\* usize::checked_add: -1 stands for None.
CheckedAdd(a, b) == IF a + b > UsizeMax THEN -1 ELSE a + b
\* A first enqueue that forgets the readers counted in the word.
CounterSnapshotZero(s) == 0
\* `waiter.counter.store(state >> READER_SHIFT)` of the first enqueue.
CounterSnapshot(s) == Upper(s)


\* ------------------------------------------------------------------- state
VARIABLES
    hle,         \* build: feature "hardware-lock-elision"
    unlockDef,   \* build: "fetch_sub" (lines 83-93) or "cas" (lines 95-104)
    word,        \* RawRwLock.state, the lock word
    pc,          \* per thread: where it stands in the operation it is running
    op,          \* per thread: the public operation it is running
    st,          \* per thread: the local `state`
    hd,          \* per thread: the local `head` of unpark
    tl,          \* per thread: the local `tail` of unpark / unpark_waiters
    hx,          \* per thread: it is inside an exclusive critical section
    hs,          \* per thread: how many shared guards it holds
    rel,         \* per thread: its running unlock_exclusive has cleared LOCKED
    prev,        \* Waiter.prev of each thread's waiter
    next,        \* Waiter.next
    tail,        \* Waiter.tail
    counter,     \* Waiter.counter
    flags,       \* Waiter.flags
    waiting_on,  \* Waiter.waiting_on is Some(&self.state)
    parker,      \* Waiter.parker: "empty" or "notified"
    calls,       \* acquire calls made so far
    started,     \* how many threads have made a call
    \* ---- the channel of src/src/mpsc/mod.rs
    bound,        \* the constructor call: NoBound for channel(), else the
                  \* argument of sync_channel(bound)
    variant,      \* which variant of enum Channel the Arc holds
    strong,       \* Arc::strong_count of the channel
    sender,       \* per sender handle: where it stands
    receiver,     \* where the Receiver stands
    disconnected, \* the queue: disconnect() has been invoked
    buf,          \* the queue: buffered messages, oldest first
    parked,       \* the queue: senders parked with their payload, oldest first
    sent,         \* per sender handle: sends it has started
    sres,         \* per sender handle: result of its latest send / try_send
    rres,         \* result of the receiver's latest recv / try_recv / recv_timeout
    accepted,     \* messages whose send succeeded, in the order they got in
    received      \* messages the receiver has returned, in order

build == <<hle, unlockDef>>
locals == <<st, hd, tl>>
links == <<prev, next, tail>>
waiterVars == <<prev, next, tail, counter, flags, waiting_on>>
holds == <<hx, hs>>
budget == <<calls, started>>
lockVars == <<hle, unlockDef, word, pc, op, st, hd, tl, hx, hs, rel,
              prev, next, tail, counter, flags, waiting_on, parker, calls, started>>
queue == <<disconnected, buf, parked>>
results == <<sres, rres, accepted, received>>
channel == <<bound, variant, strong, sender, receiver, disconnected, buf, parked,
             sent, sres, rres, accepted, received>>
vars == <<lockVars, channel>>

\* No send has been made / no receive has been made.
NoSend == [op |-> "none", tag |-> "none", passed |-> NoMessage, val |-> NoMessage]
NoRecv == [op |-> "none", tag |-> "none", val |-> NoMessage]

\* The lock is modelled by itself: no channel exists.
NoChannel ==
    /\ bound = NoBound
    /\ variant = "none"
    /\ strong = 0
    /\ sender = [h \in Handles |-> "none"]
    /\ receiver = "none"
    /\ disconnected = FALSE
    /\ buf = << >>
    /\ parked = << >>
    /\ sent = [h \in Handles |-> 0]
    /\ sres = [h \in Handles |-> NoSend]
    /\ rres = NoRecv
    /\ accepted = << >>
    /\ received = << >>

Init ==
    /\ NoChannel
    /\ hle \in BOOLEAN
    /\ unlockDef \in {"fetch_sub", "cas"}
    /\ word = UNLOCKED
    /\ pc = [t \in Threads |-> "idle"]
    /\ op = [t \in Threads |-> "none"]
    /\ st = [t \in Threads |-> 0]
    /\ hd = [t \in Threads |-> NoWaiter]
    /\ tl = [t \in Threads |-> NoWaiter]
    /\ hx = [t \in Threads |-> FALSE]
    /\ hs = [t \in Threads |-> 0]
    /\ rel = [t \in Threads |-> FALSE]
    /\ prev = [t \in Threads |-> NoWaiter]
    /\ next = [t \in Threads |-> NoWaiter]
    /\ tail = [t \in Threads |-> NoWaiter]
    /\ counter = [t \in Threads |-> 0]
    /\ flags = [t \in Threads |-> 0]
    /\ waiting_on = [t \in Threads |-> FALSE]
    /\ parker = [t \in Threads |-> "empty"]
    /\ calls = 0
    /\ started = 0

\* ------------------------------------------------------- atomic operations
\* What one atomic read-modify-write does to the word w.  `some` is FALSE for
\* the Option None (no atomic operation was made), `ok` is its success, `val`
\* the value it read and `word` the value it leaves.
None(w) == [some |-> FALSE, ok |-> FALSE, val |-> w, word |-> w]

\* AtomicUsize::compare_exchange(expected, new).
CompareExchange(w, expected, new) ==
    [some |-> TRUE, ok |-> (w = expected), val |-> w,
     word |-> IF w = expected THEN new ELSE w]

\* A try_lock_exclusive that reports success without looking at the old bit.
TryLockExclusiveOpBlind(w) ==
    [some |-> TRUE, ok |-> TRUE, val |-> w, word |-> Set(w, LOCKED)]

\* A try_lock_exclusive that takes the lock only from the word UNLOCKED.
TryLockExclusiveOpFromUnlocked(w) == CompareExchange(w, UNLOCKED, LOCKED)

\* try_lock_exclusive on x86: `lock bts [state], 0; setc old_locked_bit`.
TryLockExclusiveOp(w) ==
    [some |-> TRUE, ok |-> ~Has(w, LOCKED), val |-> w, word |-> Set(w, LOCKED)]

\* lock_exclusive_fast_assuming(state) on x86 ignores `state`.
LockExclusiveFastAssuming(s, w) == TryLockExclusiveOp(w)

\* An elided shared acquire that counts the reader and sets READING alone.
TryLockSharedUncontendedNoLocked(h, w) ==
    IF h THEN CompareExchange(w, UNLOCKED, Set(ONE_READER, READING)) ELSE None(w)

\* try_lock_shared_uncontended: xacquire cmpxchg UNLOCKED -> SINGLE_READER when
\* the feature is compiled in, None otherwise.
TryLockSharedUncontended(h, w) ==
    IF h THEN CompareExchange(w, UNLOCKED, SINGLE_READER) ELSE None(w)

\* An elided release that takes the reader out of the count and leaves the
\* LOCKED and READING bits behind.
TryUnlockSharedUncontendedKeepsBits(h, w) ==
    IF h THEN CompareExchange(w, SINGLE_READER, SINGLE_READER - ONE_READER)
    ELSE None(w)

\* try_unlock_shared_uncontended: xrelease cmpxchg SINGLE_READER -> UNLOCKED
\* when the feature is compiled in, None otherwise.
TryUnlockSharedUncontended(h, w) ==
    IF h THEN CompareExchange(w, SINGLE_READER, UNLOCKED) ELSE None(w)

\* A shared acquire that joins the readers without looking at QUEUED.
TryLockSharedAssumingPastQueue(h, s, w) ==
    IF s = UNLOCKED
    THEN TryLockSharedUncontended(h, w)
    ELSE IF Has(s, LOCKED) /\ Has(s, READING)
         THEN LET with_reader == CheckedAdd(s, ONE_READER)
              IN  IF with_reader # -1
                  THEN CompareExchange(w, s, Set(Set(with_reader, LOCKED), READING))
                  ELSE None(w)
         ELSE None(w)

\* try_lock_shared_assuming(state).
TryLockSharedAssuming(h, s, w) ==
    IF s = UNLOCKED
    THEN TryLockSharedUncontended(h, w)
    ELSE IF Has(s, LOCKED) /\ Has(s, READING) /\ ~Has(s, QUEUED)
         THEN LET with_reader == CheckedAdd(s, ONE_READER)
              IN  IF with_reader # -1
                  THEN CompareExchange(w, s, Set(Set(with_reader, LOCKED), READING))
                  ELSE None(w)
         ELSE None(w)

\* The try_lock closure of lock_exclusive_slow.
TryLockExclusiveClosure(s, w) ==
    IF ~Has(s, LOCKED) THEN LockExclusiveFastAssuming(s, w) ELSE None(w)

\* The try_lock closure that lock() was given by the running operation.
TryLock(o, h, s, w) ==
    IF o = "lock_exclusive" THEN TryLockExclusiveClosure(s, w)
    ELSE TryLockSharedAssuming(h, s, w)

\* `let is_writer = false;` of lock_exclusive_slow and of lock_shared_slow.
IsWriterOfLockExclusiveSlow == FALSE
IsWriterOfLockSharedSlow == FALSE
IsWriter(o) ==
    IF o = "lock_exclusive" THEN IsWriterOfLockExclusiveSlow
    ELSE IsWriterOfLockSharedSlow

\* ------------------------------------------------------------ queue repair
\* A repair walk that finds the tail and writes no prev link.
RECURSIVE LinkWalkNoPrev(_, _, _, _, _)
LinkWalkNoPrev(head, current, pv, tlf, fuel) ==
    LET nxt == next[current]
    IN  IF nxt = NoWaiter \/ fuel = 0
        THEN [ok |-> FALSE, prev |-> pv, tail |-> tlf, head |-> head, t |-> NoWaiter]
        ELSE IF tlf[nxt] # NoWaiter
             THEN [ok |-> TRUE, prev |-> pv,
                   tail |-> [tlf EXCEPT ![head] = tlf[nxt]],
                   head |-> head, t |-> tlf[nxt]]
             ELSE LinkWalkNoPrev(head, nxt, pv, tlf, fuel - 1)

\* Waiter::get_and_link_queue(state): from the head the word names, follow
\* `next` towards older waiters, setting each visited node's `prev` to the node
\* it was reached from, until a node with a cached `tail` is met; that tail is
\* cached in the head.  `ok` is FALSE where the walk would dereference a null
\* pointer or never end.
RECURSIVE LinkWalk(_, _, _, _, _)
LinkWalk(head, current, pv, tlf, fuel) ==
    LET nxt == next[current]
    IN  IF nxt = NoWaiter \/ fuel = 0
        THEN [ok |-> FALSE, prev |-> pv, tail |-> tlf, head |-> head, t |-> NoWaiter]
        ELSE LET pv2 == [pv EXCEPT ![nxt] = current]
             IN  IF tlf[nxt] # NoWaiter
                 THEN [ok |-> TRUE, prev |-> pv2,
                       tail |-> [tlf EXCEPT ![head] = tlf[nxt]],
                       head |-> head, t |-> tlf[nxt]]
                 ELSE LinkWalk(head, nxt, pv2, tlf, fuel - 1)

GetAndLinkQueue(s) ==
    LET head == HeadOf(s)
    IN  IF head = NoWaiter
        THEN [ok |-> FALSE, prev |-> prev, tail |-> tail, head |-> head, t |-> NoWaiter]
        ELSE IF tail[head] # NoWaiter
             THEN [ok |-> TRUE, prev |-> prev, tail |-> tail,
                   head |-> head, t |-> tail[head]]
             ELSE LinkWalk(head, head, prev, tail, NThreads)

\* ------------------------------------------------------------ control flow
\* Where a thread stands after it has set its local `state` to s, up to the
\* next access to shared memory.  "panic" is a failed assert!.

\* unpark(state): the top of its loop.
UnparkEntry(s) ==
    IF ~Has(s, QUEUED) \/ ~Has(s, QUEUE_LOCKED) THEN "panic"
    ELSE IF Has(s, LOCKED) THEN "unpark_release"
    ELSE "unpark_link"

\* link_queue_or_unpark(state): the top of its loop.
LinkQueueOrUnparkEntry(s) ==
    IF ~Has(s, QUEUED) \/ ~Has(s, QUEUE_LOCKED) THEN "panic"
    ELSE IF ~Has(s, LOCKED) THEN UnparkEntry(s)
    ELSE "lq_link"

\* The loop condition of unlock_exclusive_slow (x86).
UnlockExclusiveSlowLoops(s) ==
    ~Has(s, LOCKED) /\ Has(s, QUEUED) /\ ~Has(s, QUEUE_LOCKED)

\* unlock_exclusive_slow(state) on x86: its asserts, `state -= LOCKED`, and
\* the first test of the loop condition; "return" when the loop is not entered.
UnlockExclusiveSlowEntry(s) ==
    IF ~Has(s, LOCKED) \/ Has(s, READING) THEN "panic"
    ELSE IF UnlockExclusiveSlowLoops(s - LOCKED) THEN "uxs_cas"
    ELSE "return"

\* unlock_shared_slow(state): the top of its first loop, and what follows it.
UnlockSharedSlowEntry(s) ==
    IF ~Has(s, QUEUED)
    THEN IF ~Has(s, LOCKED) \/ ~Has(s, READING) \/ Upper(s) = 0
         THEN "panic" ELSE "us_cas"
    ELSE IF ~Has(s, LOCKED) \/ ~Has(s, READING)
         THEN "panic" ELSE "us_link"

\* A return that always goes back to the caller of the public operation.
AfterReturnToCaller(o) == "idle"

\* A function of the lock returns: lock() goes on to park, an unlock is done.
IsLockOp(o) == o \in {"lock_exclusive", "lock_shared"}
AfterReturn(o) == IF IsLockOp(o) THEN "park" ELSE "idle"
Resolve(p, o) == IF p = "return" THEN AfterReturn(o) ELSE p
OpAt(p, o) == IF p = "idle" THEN "none" ELSE o

\* A thread's locals are dead once it is idle, parked or has panicked.
LocalsDead(q) == q \in {"idle", "park", "panic", "hang"}

\* Thread t moves to p (a place, or "return") with its locals `state`, `head`
\* and `tail` set to s, h and l.
Move(t, p, s, h, l) ==
    LET q == Resolve(p, op[t])
    IN  /\ pc' = [pc EXCEPT ![t] = q]
        /\ op' = [op EXCEPT ![t] = OpAt(q, op[t])]
        /\ st' = [st EXCEPT ![t] = IF LocalsDead(q) THEN 0 ELSE s]
        /\ hd' = [hd EXCEPT ![t] = IF LocalsDead(q) THEN NoWaiter ELSE h]
        /\ tl' = [tl EXCEPT ![t] = IF LocalsDead(q) THEN NoWaiter ELSE l]
        /\ rel' = [rel EXCEPT ![t] = IF q = "idle" THEN FALSE ELSE rel[t]]

Goto(t, p, s) == Move(t, p, s, hd[t], tl[t])

\* Thread t starts public operation o at place p with local state s.
Start(t, o, p, s) ==
    LET q == Resolve(p, o)
    IN  /\ pc' = [pc EXCEPT ![t] = q]
        /\ op' = [op EXCEPT ![t] = OpAt(q, o)]
        /\ st' = [st EXCEPT ![t] = IF LocalsDead(q) THEN 0 ELSE s]
        /\ UNCHANGED <<hd, tl>>

Idle(t) == pc[t] = "idle"

\* Thread t makes one more acquire call.  The threads run the same code and
\* are interchangeable, so they are numbered in the order of their first call:
\* thread t + 1 makes its first call only after thread t has made one.
Call(t) ==
    /\ calls < MaxCalls
    /\ t <= started + 1
    /\ calls' = calls + 1
    /\ started' = IF t > started THEN t ELSE started
HoldsNothing(t) == ~hx[t] /\ hs[t] = 0

\* ------------------------------------------------- exclusive acquire paths
\* try_lock_exclusive(): one atomic step.
TryLockExclusive(t) ==
    /\ Call(t)
    /\ Idle(t) /\ HoldsNothing(t)
    /\ LET r == TryLockExclusiveOp(word)
       IN  /\ word' = r.word
           /\ hx' = [hx EXCEPT ![t] = r.ok]
    /\ UNCHANGED <<build, channel, pc, op, locals, hs, rel, waiterVars, parker>>

\* lock_exclusive(): the fast path, then lock_exclusive_slow().
LockExclusive(t) ==
    /\ Call(t)
    /\ Idle(t) /\ HoldsNothing(t)
    /\ LET r == LockExclusiveFastAssuming(UNLOCKED, word)
       IN  /\ word' = r.word
           /\ hx' = [hx EXCEPT ![t] = r.ok]
           /\ Start(t, "lock_exclusive", IF r.ok THEN "idle" ELSE "lock_load", 0)
    /\ UNCHANGED <<build, channel, hs, rel, waiterVars, parker>>

\* ------------------------------------------------------------------ lock()
\* The head of lock()'s outer loop: (waiting_on and flags are set on entry,)
\* `state` is loaded and waiter.prev cleared.
LockLoad(t) ==
    /\ pc[t] = "lock_load"
    /\ waiting_on' = [waiting_on EXCEPT ![t] = TRUE]
    /\ flags' = [flags EXCEPT ![t] = IF IsWriter(op[t]) THEN 1 ELSE 0]
    /\ prev' = [prev EXCEPT ![t] = NoWaiter]
    /\ Goto(t, "lock_try", word)
    /\ UNCHANGED <<budget, build, channel, word, holds, next, tail, counter, parker>>

\* `while let Some(was_locked) = try_lock(state)`: the closure made an atomic
\* attempt; on success lock() returns, otherwise it backs off and reloads.
LockTryAcquire(t) ==
    /\ pc[t] = "lock_try"
    /\ LET r == TryLock(op[t], hle, st[t], word)
       IN  /\ r.some
           /\ word' = r.word
           /\ hx' = [hx EXCEPT ![t] = r.ok /\ op[t] = "lock_exclusive"]
           /\ hs' = [hs EXCEPT ![t] = IF r.ok /\ op[t] = "lock_shared" THEN @ + 1 ELSE @]
           /\ Goto(t, IF r.ok THEN "idle" ELSE "lock_reload", st[t])
    /\ UNCHANGED <<budget, build, channel, waiterVars, parker>>

\* `state = self.state.load(Relaxed)` after a failed attempt.
LockReload(t) ==
    /\ pc[t] = "lock_reload"
    /\ Goto(t, "lock_try", word)
    /\ UNCHANGED <<budget, build, channel, word, holds, waiterVars, parker>>

\* try_lock gave None, no queue yet and spin.try_yield_now() is true: reload.
LockSpin(t) ==
    /\ pc[t] = "lock_try"
    /\ ~TryLock(op[t], hle, st[t], word).some
    /\ ~Has(st[t], QUEUED)
    /\ Goto(t, "lock_try", word)
    /\ UNCHANGED <<budget, build, channel, word, holds, waiterVars, parker>>

\* An enqueue whose word starts from the waiter address alone.
EnqueueStateDropsBits(t, s) ==
    LET ns == Set(WaiterPtr(t), QUEUED)
    IN  IF ~Has(s, QUEUED) THEN ns ELSE Set(ns, QUEUE_LOCKED)

\* An enqueue that never takes QUEUE_LOCKED.
EnqueueStateNeverLocks(t, s) == Set(LowBits(s) + WaiterPtr(t), QUEUED)

\* An enqueue that sets QUEUE_LOCKED whether or not a queue is there.
EnqueueStateAlwaysLocks(t, s) ==
    Set(Set(LowBits(s) + WaiterPtr(t), QUEUED), QUEUE_LOCKED)

\* The word unpark_requeue tries to publish with queue_head as the new head:
\* `new_state | QUEUE_LOCKED;` is an expression whose value is dropped.
UnparkRequeueState(queue_head, s) == Set(LowBits(s) + WaiterPtr(queue_head), QUEUED)
\* What unpark_requeue does after a successful compare-exchange over s.
UnparkRequeueAfter(queue_head, s) ==
    IF Has(s, QUEUED) /\ ~Has(s, QUEUE_LOCKED)
    THEN LinkQueueOrUnparkEntry(UnparkRequeueState(queue_head, s))
    ELSE "return"

\* The word lock() tries to publish when it enqueues thread t over state s.
EnqueueState(t, s) ==
    LET ns == Set(LowBits(s) + WaiterPtr(t), QUEUED)
    IN  IF ~Has(s, QUEUED) THEN ns ELSE Set(ns, QUEUE_LOCKED)

\* try_lock gave None and the thread enqueues itself: the waiter's fields are
\* written, then one compare-exchange publishes it as the new head.
LockEnqueue(t) ==
    /\ pc[t] = "lock_try"
    /\ ~TryLock(op[t], hle, st[t], word).some
    /\ LET s == st[t]
           new_state == EnqueueState(t, s)
           r == CompareExchange(word, s, new_state)
       IN  /\ IF ~Has(s, QUEUED)
              THEN /\ counter' = [counter EXCEPT ![t] = CounterSnapshot(s)]
                   /\ tail' = [tail EXCEPT ![t] = t]
                   /\ next' = [next EXCEPT ![t] = NoWaiter]
              ELSE /\ counter' = counter
                   /\ tail' = [tail EXCEPT ![t] = NoWaiter]
                   /\ next' = [next EXCEPT ![t] = HeadOf(s)]
           /\ word' = r.word
           /\ IF ~r.ok THEN Goto(t, "lock_try", r.val)
              ELSE IF Has(s, QUEUED) /\ ~Has(s, QUEUE_LOCKED)
                   THEN Goto(t, LinkQueueOrUnparkEntry(new_state), new_state)
                   ELSE Goto(t, "park", 0)
    /\ UNCHANGED <<budget, build, channel, holds, prev, flags, waiting_on, parker>>

\* waiter.parker.park(None): returns once the parker has been notified.
Park(t) ==
    /\ pc[t] = "park"
    /\ parker[t] = "notified"
    /\ parker' = [parker EXCEPT ![t] = "empty"]
    /\ Goto(t, "lock_load", 0)
    /\ UNCHANGED <<budget, build, channel, word, holds, waiterVars>>

\* -------------------------------------------------- link_queue_or_unpark()
\* LOCKED is set: fence, then get_and_link_queue(state).
LinkQueue(t) ==
    /\ pc[t] = "lq_link"
    /\ LET q == GetAndLinkQueue(st[t])
       IN  /\ prev' = q.prev
           /\ tail' = q.tail
           /\ Goto(t, IF q.ok THEN "lq_cas" ELSE "panic", st[t])
    /\ UNCHANGED <<budget, build, channel, word, holds, next, counter, flags, waiting_on, parker>>

\* compare_exchange_weak(state, state & !QUEUE_LOCKED).
LinkQueueRelease(t) ==
    /\ pc[t] = "lq_cas"
    /\ LET r == CompareExchange(word, st[t], Clear(st[t], QUEUE_LOCKED))
       IN  /\ word' = r.word
           /\ IF r.ok THEN Goto(t, "return", 0)
              ELSE Goto(t, LinkQueueOrUnparkEntry(r.val), r.val)
    /\ UNCHANGED <<budget, build, channel, holds, waiterVars, parker>>

\* ---------------------------------------------------------------- unpark()
\* LOCKED is set in `state`: give QUEUE_LOCKED back and return.
UnparkRelease(t) ==
    /\ pc[t] = "unpark_release"
    /\ LET r == CompareExchange(word, st[t], Clear(st[t], QUEUE_LOCKED))
       IN  /\ word' = r.word
           /\ IF r.ok THEN Goto(t, "return", 0)
              ELSE Goto(t, UnparkEntry(r.val), r.val)
    /\ UNCHANGED <<budget, build, channel, holds, waiterVars, parker>>

\* `tail.flags.get() as bool`.
AsBool(f) == f # 0

\* LOCKED is clear: fence, get_and_link_queue(state), then the choice between
\* waking the one writer at the tail (head.tail is moved to tail.prev first)
\* and dequeuing everything.
UnparkLink(t) ==
    /\ pc[t] = "unpark_link"
    /\ LET q == GetAndLinkQueue(st[t])
           is_writer == AsBool(flags[q.t])
       IN  IF ~q.ok
           THEN /\ prev' = q.prev
                /\ tail' = q.tail
                /\ Goto(t, "panic", 0)
           ELSE /\ prev' = q.prev
                /\ IF is_writer /\ q.prev[q.t] # NoWaiter
                   THEN /\ tail' = [q.tail EXCEPT ![q.head] = q.prev[q.t]]
                        /\ Move(t, "unpark_fetch_and", st[t], q.head, q.t)
                   ELSE /\ tail' = q.tail
                        /\ Move(t, "unpark_cas", st[t], q.head, q.t)
    /\ UNCHANGED <<budget, build, channel, word, holds, next, counter, flags, waiting_on, parker>>

\* A word that gives QUEUE_LOCKED back and keeps the queue.
UnparkClearedStateKeepsQueue(s) == Clear(s, QUEUE_LOCKED)

\* `state & !(Waiter::MASK | QUEUED | QUEUE_LOCKED)`.
UnparkClearedState(s) == Clear(Clear(LowBits(s), QUEUED), QUEUE_LOCKED)

\* The step that takes the waiters off the queue.  When the tail is a writer
\* with a newer neighbour: fetch_and(!QUEUE_LOCKED), tail.prev = None, and
\* unpark_waiters(tail) wakes it alone.  Otherwise:
\* compare_exchange_weak(state, state & !(Waiter::MASK | QUEUED | QUEUE_LOCKED)),
\* then unpark_waiters(tail) wakes the whole queue.
UnparkDequeue(t) ==
    /\ pc[t] \in {"unpark_fetch_and", "unpark_cas"}
    /\ IF pc[t] = "unpark_fetch_and"
       THEN /\ word' = Clear(word, QUEUE_LOCKED)
            /\ prev' = [prev EXCEPT ![tl[t]] = NoWaiter]
            /\ Goto(t, "unpark_waiters", st[t])
       ELSE LET new_state == UnparkClearedState(st[t])
                r == CompareExchange(word, st[t], new_state)
            IN  /\ word' = r.word
                /\ prev' = prev
                /\ IF r.ok THEN Goto(t, "unpark_waiters", new_state)
                   ELSE Goto(t, UnparkEntry(r.val), r.val)
    /\ UNCHANGED <<budget, build, channel, holds, next, tail, counter, flags, waiting_on, parker>>

\* A walk that stays on the waiter it has just unparked.
WalkPrevStays(w) == w

\* `let prev = tail.as_ref().prev.get();` of unpark_waiters.
WalkPrev(w) == prev[w]

\* One round of unpark_waiters(tail): the waiting_on assert, `prev` is read,
\* the parker is unparked, and the walk goes on to prev or returns.
UnparkWaiters(t) ==
    /\ pc[t] = "unpark_waiters"
    /\ IF ~waiting_on[tl[t]]
       THEN /\ Goto(t, "panic", 0)
            /\ parker' = parker
       ELSE /\ parker' = [parker EXCEPT ![tl[t]] = "notified"]
            /\ IF WalkPrev(tl[t]) # NoWaiter
               THEN Move(t, "unpark_waiters", st[t], hd[t], WalkPrev(tl[t]))
               ELSE Goto(t, "return", 0)
    /\ UNCHANGED <<budget, build, channel, word, holds, waiterVars>>

\* ------------------------------------------------------ exclusive release
\* Thread t starts unlock_exclusive at place p; `cleared` says whether its
\* first atomic step cleared LOCKED.
StartUnlockExclusive(t, p, s, cleared) ==
    /\ Start(t, "unlock_exclusive", p, s)
    /\ rel' = [rel EXCEPT ![t] =
                 cleared /\ Resolve(p, "unlock_exclusive") # "idle"]

\* unlock_exclusive(), first definition: fetch_sub(LOCKED), and the slow path
\* when the old word had QUEUED without QUEUE_LOCKED.
UnlockExclusiveFetchSub(t) ==
    LET state == word
    IN  /\ word' = WrapSub(word, LOCKED)
        /\ IF Has(state, QUEUED) /\ ~Has(state, QUEUE_LOCKED)
           THEN StartUnlockExclusive(t, UnlockExclusiveSlowEntry(state),
                                     state - LOCKED, Has(state, LOCKED))
           ELSE StartUnlockExclusive(t, "return", 0, Has(state, LOCKED))

\* unlock_exclusive(), second definition: compare_exchange(LOCKED, UNLOCKED),
\* and the slow path with the word it read when that fails.
UnlockExclusiveCas(t) ==
    LET r == CompareExchange(word, LOCKED, UNLOCKED)
    IN  /\ word' = r.word
        /\ IF r.ok THEN StartUnlockExclusive(t, "return", 0, TRUE)
           ELSE StartUnlockExclusive(t, UnlockExclusiveSlowEntry(r.val),
                                     r.val - LOCKED, FALSE)

\* unlock_exclusive(), called by the exclusive holder: whichever of the two
\* definitions the build uses.
UnlockExclusive(t) ==
    /\ Idle(t) /\ hx[t]
    /\ hx' = [hx EXCEPT ![t] = FALSE]
    /\ IF unlockDef = "fetch_sub"
       THEN UnlockExclusiveFetchSub(t)
       ELSE UnlockExclusiveCas(t)
    /\ UNCHANGED <<budget, build, channel, hs, waiterVars, parker>>

\* The loop of unlock_exclusive_slow (x86): take QUEUE_LOCKED with
\* compare_exchange_weak(state, state | QUEUE_LOCKED) and run unpark, or
\* reload and test the loop condition again.
UnlockExclusiveSlowCas(t) ==
    /\ pc[t] = "uxs_cas"
    /\ LET new_state == Set(st[t], QUEUE_LOCKED)
           r == CompareExchange(word, st[t], new_state)
       IN  /\ word' = r.word
           /\ IF r.ok THEN Goto(t, UnparkEntry(new_state), new_state)
              ELSE IF UnlockExclusiveSlowLoops(r.val) THEN Goto(t, "uxs_cas", r.val)
              ELSE Goto(t, "return", 0)
    /\ UNCHANGED <<budget, build, channel, holds, waiterVars, parker>>

\* ------------------------------------------------------- shared acquire paths
\* try_lock_shared() and lock_shared() start with try_lock_shared_fast():
\* `state` is loaded.
TryLockShared(t) ==
    /\ Call(t)
    /\ Idle(t) /\ ~hx[t] /\ hs[t] < MaxHolds
    /\ Start(t, "try_lock_shared", "tls_fast", word)
    /\ UNCHANGED <<build, channel, word, holds, rel, waiterVars, parker>>

LockShared(t) ==
    /\ Call(t)
    /\ Idle(t) /\ HoldsNothing(t)
    /\ Start(t, "lock_shared", "tls_fast", word)
    /\ UNCHANGED <<build, channel, word, holds, rel, waiterVars, parker>>

\* The rest of try_lock_shared_fast(): try_lock_shared_assuming(state), true
\* when it gave Some(Ok(_)).  Otherwise try_lock_shared goes on to
\* try_lock_shared_slow and lock_shared to lock_shared_slow.
TryLockSharedFast(t) ==
    /\ pc[t] = "tls_fast"
    /\ LET r == TryLockSharedAssuming(hle, st[t], word)
       IN  /\ word' = r.word
           /\ hs' = [hs EXCEPT ![t] = IF r.some /\ r.ok THEN @ + 1 ELSE @]
           /\ Goto(t, IF r.some /\ r.ok THEN "idle"
                      ELSE IF op[t] = "lock_shared" THEN "lock_load"
                      ELSE "tlss_load", 0)
    /\ UNCHANGED <<budget, build, channel, hx, waiterVars, parker>>

\* try_lock_shared_slow(): `state` is loaded.
TryLockSharedSlowLoad(t) ==
    /\ pc[t] = "tlss_load"
    /\ Goto(t, "tlss_try", word)
    /\ UNCHANGED <<budget, build, channel, word, holds, waiterVars, parker>>

\* One round of try_lock_shared_slow's loop: None returns false, Some(Err(e))
\* retries with e, Some(Ok(_)) returns true.
TryLockSharedSlow(t) ==
    /\ pc[t] = "tlss_try"
    /\ LET r == TryLockSharedAssuming(hle, st[t], word)
       IN  /\ word' = r.word
           /\ hs' = [hs EXCEPT ![t] = IF r.some /\ r.ok THEN @ + 1 ELSE @]
           /\ IF r.some /\ ~r.ok THEN Goto(t, "tlss_try", r.val)
              ELSE Goto(t, "idle", 0)
    /\ UNCHANGED <<budget, build, channel, hx, waiterVars, parker>>

\* --------------------------------------------------------- shared release
\* unlock_shared(), called by a shared holder: `state` is loaded.
UnlockShared(t) ==
    /\ Idle(t) /\ hs[t] > 0
    /\ hs' = [hs EXCEPT ![t] = @ - 1]
    /\ Start(t, "unlock_shared",
             IF word = SINGLE_READER /\ TryUnlockSharedUncontended(hle, word).some
             THEN "us_uncontended" ELSE UnlockSharedSlowEntry(word), word)
    /\ UNCHANGED <<budget, build, channel, word, hx, rel, waiterVars, parker>>

\* unlock_shared() saw SINGLE_READER and the elision path is compiled in:
\* Some(Ok(_)) returns, Some(Err(e)) goes to unlock_shared_slow(e).
UnlockSharedUncontended(t) ==
    /\ pc[t] = "us_uncontended"
    /\ LET r == TryUnlockSharedUncontended(hle, word)
       IN  /\ word' = r.word
           /\ IF r.ok THEN Goto(t, "return", 0)
              ELSE Goto(t, UnlockSharedSlowEntry(r.val), r.val)
    /\ UNCHANGED <<budget, build, channel, holds, waiterVars, parker>>

\* One round of unlock_shared_slow's first loop (QUEUED clear in `state`).
UnlockSharedSlowCas(t) ==
    /\ pc[t] = "us_cas"
    /\ LET state == st[t]
           new_state == IF state = SINGLE_READER THEN UNLOCKED
                        ELSE state - ONE_READER
           u == IF state = SINGLE_READER
                THEN TryUnlockSharedUncontended(hle, word) ELSE None(word)
           r == IF u.some THEN u ELSE CompareExchange(word, state, new_state)
       IN  /\ word' = r.word
           /\ IF r.ok THEN Goto(t, "return", 0)
              ELSE Goto(t, UnlockSharedSlowEntry(r.val), r.val)
    /\ UNCHANGED <<budget, build, channel, holds, waiterVars, parker>>

\* QUEUED is set in `state`: fence, then get_and_link_queue(state).
UnlockSharedLink(t) ==
    /\ pc[t] = "us_link"
    /\ LET q == GetAndLinkQueue(st[t])
       IN  /\ prev' = q.prev
           /\ tail' = q.tail
           /\ IF q.ok THEN Move(t, "us_dec", st[t], q.head, q.t)
              ELSE Goto(t, "panic", 0)
    /\ UNCHANGED <<budget, build, channel, word, holds, next, counter, flags, waiting_on, parker>>

\* `readers = tail.counter.fetch_sub(1)`, which is the value before the
\* subtraction; assert_ne!(readers, 0); `if readers > 0 { return }`; what is
\* left is a load and `loop {}`.
UnlockSharedDecrement(t) ==
    /\ pc[t] = "us_dec"
    /\ LET readers == counter[tl[t]]
       IN  /\ counter' = [counter EXCEPT ![tl[t]] = WrapSub(readers, 1)]
           /\ IF readers = 0 THEN Goto(t, "panic", 0)
              ELSE IF readers > 0 THEN Goto(t, "return", 0)
              ELSE Goto(t, "hang", 0)
    /\ UNCHANGED <<budget, build, channel, word, holds, prev, next, tail, flags, waiting_on, parker>>

\* ----------------------------------------------------------- specification
Step(t) ==
    \/ TryLockExclusive(t)
    \/ LockExclusive(t)
    \/ LockLoad(t)
    \/ LockTryAcquire(t)
    \/ LockReload(t)
    \/ LockSpin(t)
    \/ LockEnqueue(t)
    \/ Park(t)
    \/ LinkQueue(t)
    \/ LinkQueueRelease(t)
    \/ UnparkRelease(t)
    \/ UnparkLink(t)
    \/ UnparkDequeue(t)
    \/ UnparkWaiters(t)
    \/ UnlockExclusive(t)
    \/ UnlockExclusiveSlowCas(t)
    \/ TryLockShared(t)
    \/ LockShared(t)
    \/ TryLockSharedFast(t)
    \/ TryLockSharedSlowLoad(t)
    \/ TryLockSharedSlow(t)
    \/ UnlockShared(t)
    \/ UnlockSharedUncontended(t)
    \/ UnlockSharedSlowCas(t)
    \/ UnlockSharedLink(t)
    \/ UnlockSharedDecrement(t)

Next == \E t \in Threads : Step(t)

Spec == Init /\ [][Next]_vars

\* ================================================================== claims
RECURSIVE SumHs(_)
SumHs(n) == IF n = 0 THEN 0 ELSE hs[n] + SumHs(n - 1)

\* Shared guards that exist: those held, and those whose unlock_shared has
\* been called but has not yet made its decrement.
SharedHolders == SumHs(NThreads) + Cardinality({t \in Threads : op[t] = "unlock_shared"})
ExclusiveHolders == {t \in Threads : hx[t]}

\* A thread sits in park() and nobody has unparked it.
Parked(t) == pc[t] = "park" /\ parker[t] = "empty"
\* No call is running: every thread is idle or parked.
NoCallRunning == \A t \in Threads : pc[t] = "idle" \/ Parked(t)
NobodyHolds == \A t \in Threads : ~hx[t] /\ hs[t] = 0

\* C1: at most one thread holds the lock exclusively, and no thread holds it
\* shared while another holds it exclusively.
C1_MutualExclusion ==
    /\ Cardinality(ExclusiveHolders) <= 1
    /\ \A t, u \in Threads : hx[t] /\ hs[u] > 0 => FALSE

\* C1 witness: a writer holds the lock while a reader, inside lock(), has just
\* attempted to get in and another thread is parked behind it.
C1_Witness ==
    \E t, u \in Threads :
        /\ hx[t]
        /\ op[u] = "lock_shared" /\ pc[u] = "lock_try"
        /\ Has(word, QUEUED)

\* The build in which readers can get in (elision compiled in) and the
\* exclusive release is the fetch_sub definition.
ElisionFetchSubBuild == hle /\ unlockDef = "fetch_sub"

\* C2: no lost wakeup.  Stated so that a finite run refutes it: whenever a
\* thread is parked and not yet unparked, the lock is held or some call is
\* still running (the one that will unpark); a parked thread is never left
\* behind with no holder and nothing running.  Stated for the build of
\* ElisionFetchSubBuild, so that the run shows the release path at fault.
C2_NoLostWakeup ==
    ElisionFetchSubBuild /\ (\E t \in Threads : Parked(t))
        => ~(NobodyHolds /\ NoCallRunning)

\* Thread t's unlock_exclusive returns in this step.
UnlockExclusiveReturns(t) ==
    /\ (Idle(t) /\ hx[t] /\ ~hx'[t]) \/ op[t] = "unlock_exclusive"
    /\ pc'[t] = "idle"

\* C3: when unlock_exclusive returns, one of its atomic steps has cleared the
\* LOCKED bit the holder had set, with or without waiters queued, in both
\* definitions of unlock_exclusive.
C3_UnlockExclusiveClearsLocked ==
    [][\A t \in Threads :
          UnlockExclusiveReturns(t) =>
              rel[t] \/ (Has(word, LOCKED) /\ ~Has(word', LOCKED))]_vars

\* The lock is UNLOCKED, or held only by readers with no waiter queued and
\* room for one more reader.
SharedAcquirable(w) ==
    \/ w = UNLOCKED
    \/ /\ Has(w, LOCKED) /\ Has(w, READING)
       /\ ~Has(w, QUEUED) /\ ~Has(w, QUEUE_LOCKED)
       /\ Upper(w) < MaxReaders

\* Thread t runs a shared acquire and its local `state` is the current word.
SharedAcquireSeesWord(t) ==
    /\ op[t] \in {"try_lock_shared", "lock_shared"}
    /\ pc[t] \in {"tls_fast", "tlss_try", "lock_try"}
    /\ st[t] = word
\* In this step t's try_lock_shared returns false; t's lock_shared enqueues
\* itself (and goes on to park); t's shared acquire gets the lock.
TryLockSharedReturnsFalse(t) ==
    op[t] = "try_lock_shared" /\ pc[t] = "tlss_try" /\ pc'[t] = "idle" /\ hs'[t] = hs[t]
LockSharedEnqueues(t) ==
    /\ op[t] = "lock_shared" /\ pc[t] = "lock_try"
    /\ word' # word /\ Has(word', QUEUED) /\ Upper(word') = t
SharedAcquired(t) == hs'[t] = hs[t] + 1

\* C4: a shared acquire (try_lock_shared or lock_shared) on an acquirable lock
\* does not return false and does not enqueue itself to park, and a shared
\* acquire that gets the lock raises the reader count by exactly one
\* (UNLOCKED becomes SINGLE_READER).
C4_SharedAcquireSucceeds ==
    [][\A t \in Threads :
          /\ SharedAcquireSeesWord(t) /\ SharedAcquirable(word) =>
                ~TryLockSharedReturnsFalse(t) /\ ~LockSharedEnqueues(t)
          /\ SharedAcquired(t) =>
                word' = IF word = UNLOCKED THEN SINGLE_READER
                        ELSE word + ONE_READER]_vars

\* C5: writer non-starvation.  Stated so that a finite run refutes it: a
\* writer parked in lock_exclusive is never left un-notified once every
\* holder has released and every other call has run to its end or parked.
\* Stated for the build of ElisionFetchSubBuild, in which readers get in.
C5_WriterEventuallyGranted ==
    \A t \in Threads :
        ElisionFetchSubBuild /\ op[t] = "lock_exclusive" /\ Parked(t) =>
            \E u \in Threads : u # t /\ (hx[u] \/ hs[u] > 0 \/ ~(pc[u] = "idle" \/ Parked(u)))

\* The waiter that first installed the queue: the end of the `next` chain
\* that starts at the head named by the word.
RECURSIVE QueueEnd(_, _)
QueueEnd(w, fuel) ==
    IF w = NoWaiter \/ fuel = 0 THEN w
    ELSE IF next[w] = NoWaiter THEN w ELSE QueueEnd(next[w], fuel - 1)
FirstInstaller == QueueEnd(HeadOf(word), NThreads)
\* The one place that holds the reader count.
ReadersRecorded ==
    IF Has(word, QUEUED) THEN counter[FirstInstaller] ELSE Upper(word)

\* C6: whenever the lock is held shared the READING bit is set and the
\* recorded reader count equals the number of shared holders; the count is
\* the word's upper bits while QUEUED is clear and the counter of the waiter
\* that first installed the queue while QUEUED is set.
C6_ReaderCountMatchesHolders ==
    /\ SharedHolders > 0 => Has(word, READING)
    /\ Has(word, READING) => ReadersRecorded = SharedHolders

\* Two readers held the lock when the first waiter enqueued, so its counter
\* took the count 2 from the word; one reader is in unlock_shared_slow about
\* to decrement that counter and the other still holds.
C6_Witness ==
    /\ Has(word, QUEUED) /\ Has(word, READING)
    /\ SharedHolders = 2 /\ counter[FirstInstaller] = 2
    /\ \E t, u \in Threads :
          /\ t # u
          /\ op[t] = "unlock_shared" /\ pc[t] = "us_dec" /\ tl[t] = FirstInstaller
          /\ hs[u] = 1

\* In this step t's unlock_shared returns, t was the only shared holder left
\* and no waiter is queued.
LastSharedRelease(t) ==
    /\ op[t] = "unlock_shared" /\ pc'[t] = "idle"
    /\ SharedHolders = 1
    /\ ~Has(word, QUEUED)

\* C7: with no waiters queued, the unlock_shared that releases the last of N
\* shared holds leaves the word exactly UNLOCKED, whatever the interleaving of
\* the releases; and once every call has returned and nothing is held, the
\* word is UNLOCKED.
C7_SharedPairingBalanced ==
    [][/\ \A t \in Threads : LastSharedRelease(t) => word' = UNLOCKED
       /\ (\A t \in Threads : pc[t] = "idle") /\ NobodyHolds /\ ~Has(word, QUEUED)
             => word = UNLOCKED]_vars

\* Two releases interleave: t read the word while two readers held, the other
\* reader released in between, and t is the last holder about to retry.
C7_Witness ==
    \E t \in Threads :
        /\ op[t] = "unlock_shared" /\ pc[t] = "us_cas"
        /\ st[t] = SINGLE_READER + ONE_READER
        /\ word = SINGLE_READER
        /\ SharedHolders = 1

ReaderCountAtMax(w) ==
    Has(w, LOCKED) /\ Has(w, READING) /\ ~Has(w, QUEUED) /\ Upper(w) = MaxReaders

\* C9: with the reader count in the word at its maximum, no step of a
\* try_lock_shared changes the word or takes a shared hold, and the call
\* returns false; a shared acquire that gets a word without waiters raises
\* the count by one and leaves the four flag bits as LOCKED | READING, so the
\* count neither wraps to zero nor spills into the flag bits.
C9_ReaderCountSaturates ==
    [][\A t \in Threads :
          /\ op[t] = "try_lock_shared" /\ ReaderCountAtMax(word) /\ pc'[t] # pc[t] =>
                /\ word' = word /\ hs'[t] = hs[t]
                /\ TryLockSharedSlow(t) /\ st[t] = word => pc'[t] = "idle"
          /\ SharedAcquired(t) =>
                /\ Upper(word') = Upper(word) + 1
                /\ LowBits(word') = LOCKED + READING]_vars

\* try_lock_shared_slow is about to try on the word it has just loaded, whose
\* reader count is at the maximum.
C9_Witness ==
    \E t \in Threads :
        /\ op[t] = "try_lock_shared" /\ pc[t] = "tlss_try"
        /\ st[t] = word /\ ReaderCountAtMax(word)

\* try_lock_shared() run alone on the word w in the build with (h) or without
\* the elision paths: its result and the word it leaves.  Run alone, no
\* compare-exchange of try_lock_shared_slow's loop fails, so one round decides.
SeqTryLockShared(h, w) ==
    LET fast == TryLockSharedAssuming(h, w, w)
        slow == TryLockSharedAssuming(h, fast.word, fast.word)
    IN  IF fast.some /\ fast.ok THEN [result |-> TRUE, word |-> fast.word]
        ELSE [result |-> slow.some /\ slow.ok, word |-> slow.word]

\* unlock_shared() run alone on a word w held by readers with no waiters
\* queued: the word it leaves.
SeqUnlockShared(h, w) ==
    LET first == IF w = SINGLE_READER THEN TryUnlockSharedUncontended(h, w)
                 ELSE None(w)
        again == IF w = SINGLE_READER THEN TryUnlockSharedUncontended(h, w)
                 ELSE None(w)
        new_state == IF w = SINGLE_READER THEN UNLOCKED ELSE w - ONE_READER
    IN  IF first.some /\ first.ok THEN first.word
        ELSE IF again.some /\ again.ok THEN again.word
        ELSE CompareExchange(w, w, new_state).word

\* C10: on every lock word the program reaches, try_lock_shared gives the same
\* result and leaves the same word with the elision paths compiled in as with
\* them returning None, and so does unlock_shared on a word held by readers
\* with no waiters queued.
C10_ElisionTransparent ==
    /\ SeqTryLockShared(TRUE, word) = SeqTryLockShared(FALSE, word)
    /\ Has(word, READING) /\ ~Has(word, QUEUED) /\ Upper(word) > 0 =>
           SeqUnlockShared(TRUE, word) = SeqUnlockShared(FALSE, word)

\* ===================================================== the channel facade
\* src/src/mpsc/mod.rs.  The three queues (mod bounded, mod rendezvous, mod
\* unbounded) are declared there and live in files of their own; what they do
\* is taken from their description: a FIFO buffer, a disconnect flag, senders
\* parked with their payload in arrival order, a receiver that waits.

\* channel(): Channel::Unbounded.
ChannelVariant == "Unbounded"
\* A sync_channel that takes every bound for a capacity.
SyncChannelAlwaysBounded(b) == "Bounded"
\* sync_channel(bound): NonZeroUsize::new(bound) is Some(n) unless bound is 0.
SyncChannelVariant(b) == IF b # 0 THEN "Bounded" ELSE "Rendezvous"
\* The variant the constructor call builds.
ConstructedVariant(b) ==
    IF b = NoBound THEN ChannelVariant ELSE SyncChannelVariant(b)
\* channel() returns a Sender, sync_channel() a SyncSender.
IsSyncSender == bound # NoBound

\* Sender::send: which queue method the match reaches.
SenderSendArm(v) ==
    IF v \in {"Rendezvous", "Unbounded"} THEN "send" ELSE "unreachable"
\* SyncSender::send.
SyncSenderSendArm(v) == IF v = "Bounded" THEN "send" ELSE "unreachable"
\* SyncSender::try_send.
SyncSenderTrySendArm(v) == IF v = "Bounded" THEN "try_send" ELSE "unreachable"

\* Drop for Sender: `if Arc::strong_count(&self.chan) == 2`.
SenderDropDisconnectsFromTwoUp(count) == count >= 2
SenderDropDisconnects(count) == count = 2
\* Drop for Receiver: `if Arc::strong_count(&self.chan) != 1`.
ReceiverDropDisconnects(count) == count # 1

\* What a queue method gives back: ok, or the payload with why.
QOk == [ok |-> TRUE, why |-> "none", val |-> NoMessage]
QErr(why, v) == [ok |-> FALSE, why |-> why, val |-> v]

\* send: result.map_err(|t| SendError(t)).
SendResult(q, v) ==
    [op |-> "send", passed |-> v,
     tag |-> IF q.ok THEN "Ok" ELSE "SendError",
     val |-> IF q.ok THEN NoMessage ELSE q.val]
\* A try_send whose map_err has its two arms the other way round.
TrySendResultSwapped(q, v) ==
    [op |-> "try_send", passed |-> v,
     tag |-> IF q.ok THEN "Ok"
             ELSE IF q.why = "full" THEN "Disconnected" ELSE "Full",
     val |-> IF q.ok THEN NoMessage ELSE q.val]
\* try_send: Err(Ok(t)) => TrySendError::Full(t),
\*           Err(Err(t)) => TrySendError::Disconnected(t).
TrySendResult(q, v) ==
    [op |-> "try_send", passed |-> v,
     tag |-> IF q.ok THEN "Ok"
             ELSE IF q.why = "full" THEN "Full" ELSE "Disconnected",
     val |-> IF q.ok THEN NoMessage ELSE q.val]
\* unreachable!("invalid channel type"): the call panics, the payload is gone.
Unreachable(o, v) == [op |-> o, passed |-> v, tag |-> "panic", val |-> NoMessage]
\* From<SendError<T>> for TrySendError<T> that forgets the payload.
FromSendErrorLosing(e) ==
    [op |-> e.op, passed |-> e.passed, tag |-> "Disconnected", val |-> NoMessage]
\* From<SendError<T>> for TrySendError<T>: SendError(t) => Disconnected(t).
FromSendError(e) ==
    [op |-> e.op, passed |-> e.passed, tag |-> "Disconnected", val |-> e.val]

\* try_recv / recv / recv_timeout: the match on the queue's result.  r is
\* "value" for Ok(Some(t)), "none" for Ok(None), "disconnected" for Err(()).
RecvResult(o, r, v) ==
    [op |-> o,
     tag |-> IF r = "value" THEN "Ok"
             ELSE IF r = "disconnected"
                  THEN (IF o = "recv" THEN "RecvError" ELSE "Disconnected")
             ELSE IF o = "try_recv" THEN "Empty"
             ELSE IF o = "recv_timeout" THEN "Timeout"
             ELSE "panic",
     val |-> IF r = "value" THEN v ELSE NoMessage]

\* A recv_deadline past its deadline that reports an empty queue as a
\* disconnected one.
RecvDeadlineResultHangsUp(r) ==
    [op |-> "recv_deadline",
     tag |-> IF r.tag = "Ok" THEN "Ok" ELSE "Disconnected",
     val |-> r.val]
\* recv_deadline past its deadline: the match on the result of try_recv.
RecvDeadlineResult(r) ==
    [op |-> "recv_deadline",
     tag |-> IF r.tag = "Ok" THEN "Ok"
             ELSE IF r.tag = "Empty" THEN "Timeout"
             ELSE "Disconnected",
     val |-> r.val]
\* What the receiver's call o returns for the queue's result r.
Returned(o, r, v) ==
    IF o = "recv_deadline" THEN RecvDeadlineResult(RecvResult("try_recv", r, v))
    ELSE RecvResult(o, r, v)

\* The channel is modelled by itself: nobody uses the lock.
LockUnused ==
    /\ hle = FALSE
    /\ unlockDef = "fetch_sub"
    /\ word = UNLOCKED
    /\ pc = [t \in Threads |-> "idle"]
    /\ op = [t \in Threads |-> "none"]
    /\ st = [t \in Threads |-> 0]
    /\ hd = [t \in Threads |-> NoWaiter]
    /\ tl = [t \in Threads |-> NoWaiter]
    /\ hx = [t \in Threads |-> FALSE]
    /\ hs = [t \in Threads |-> 0]
    /\ rel = [t \in Threads |-> FALSE]
    /\ prev = [t \in Threads |-> NoWaiter]
    /\ next = [t \in Threads |-> NoWaiter]
    /\ tail = [t \in Threads |-> NoWaiter]
    /\ counter = [t \in Threads |-> 0]
    /\ flags = [t \in Threads |-> 0]
    /\ waiting_on = [t \in Threads |-> FALSE]
    /\ parker = [t \in Threads |-> "empty"]
    /\ calls = 0
    /\ started = 0

\* The state channel() or sync_channel(bound) returns: one Arc shared by one
\* sender handle and the Receiver, an empty queue.
ChanInit ==
    /\ LockUnused
    /\ bound \in {NoBound} \cup (0 .. MaxBound)
    /\ variant = ConstructedVariant(bound)
    /\ strong = 2
    /\ sender = [h \in Handles |-> IF h = 1 THEN "live" ELSE "none"]
    /\ receiver = "live"
    /\ disconnected = FALSE
    /\ buf = << >>
    /\ parked = << >>
    /\ sent = [h \in Handles |-> 0]
    /\ sres = [h \in Handles |-> NoSend]
    /\ rres = NoRecv
    /\ accepted = << >>
    /\ received = << >>

\* ------------------------------------------------- sender handles: lifetime
\* Clone for Sender / SyncSender: Arc::clone, the next handle comes to life.
SenderClone(h) ==
    /\ sender[h] = "live"
    /\ \E g \in Handles :
          /\ sender[g] = "none"
          /\ \A f \in Handles : f < g => sender[f] # "none"
          /\ sender' = [sender EXCEPT ![g] = "live"]
    /\ strong' = strong + 1
    /\ UNCHANGED <<lockVars, bound, variant, receiver, queue, sent, results>>

\* Drop for Sender, first step: the strong count is read and compared.
SenderDropCheck(h) ==
    /\ sender[h] = "live"
    /\ sender' = [sender EXCEPT ![h] =
                     IF SenderDropDisconnects(strong) THEN "disconnecting"
                     ELSE "releasing"]
    /\ UNCHANGED <<lockVars, bound, variant, strong, receiver, queue, sent, results>>

\* Drop for Sender: chan.disconnect().
SenderDropDisconnect(h) ==
    /\ sender[h] = "disconnecting"
    /\ disconnected' = TRUE
    /\ sender' = [sender EXCEPT ![h] = "releasing"]
    /\ UNCHANGED <<lockVars, bound, variant, strong, receiver, buf, parked, sent, results>>

\* After drop() the field `chan` is dropped: the Arc gives up its count.
SenderRelease(h) ==
    /\ sender[h] = "releasing"
    /\ strong' = strong - 1
    /\ sender' = [sender EXCEPT ![h] = "dropped"]
    /\ UNCHANGED <<lockVars, bound, variant, receiver, queue, sent, results>>

\* Drop for Receiver, in the same three steps.
ReceiverDropCheck ==
    /\ receiver = "live"
    /\ receiver' = IF ReceiverDropDisconnects(strong) THEN "disconnecting"
                   ELSE "releasing"
    /\ UNCHANGED <<lockVars, bound, variant, strong, sender, queue, sent, results>>

ReceiverDropDisconnect ==
    /\ receiver = "disconnecting"
    /\ disconnected' = TRUE
    /\ receiver' = "releasing"
    /\ UNCHANGED <<lockVars, bound, variant, strong, sender, buf, parked, sent, results>>

ReceiverRelease ==
    /\ receiver = "releasing"
    /\ strong' = strong - 1
    /\ receiver' = "dropped"
    /\ UNCHANGED <<lockVars, bound, variant, sender, queue, sent, results>>

\* ------------------------------------------------------------------ sending
\* The value handle h passes to its next send.
NextMessage(h) == <<h, sent[h] + 1>>
\* Sends started so far, by all handles.
RECURSIVE SumSent(_)
SumSent(n) == IF n = 0 THEN 0 ELSE sent[n] + SumSent(n - 1)
SendsStarted == SumSent(MaxSenders)
\* A send that is still parked has given no result yet.
Sending(o, v) == [op |-> o, passed |-> v, tag |-> "none", val |-> NoMessage]
\* The queue takes a message in; a variant that puts it in front of the
\* older ones.
PushFront(b, v) == <<v>> \o b
Push(b, v) == Append(b, v)
\* The bounded queue has room for one more message.
HasRoom(b, n) == Len(b) < n
\* The parked senders without the i-th.
Without(q, i) == SubSeq(q, 1, i - 1) \o SubSeq(q, i + 1, Len(q))

\* Sender::send / SyncSender::send.  The queue's send gives Err(t) once
\* disconnect() has been invoked; the unbounded queue appends, the bounded one
\* appends while it has room and parks the sender with its payload otherwise;
\* the rendezvous queue parks the sender until a receiver takes its payload.
Send(h) ==
    /\ sender[h] = "live" /\ SendsStarted < MaxSends
    /\ sent' = [sent EXCEPT ![h] = @ + 1]
    /\ LET v == NextMessage(h)
           arm == IF IsSyncSender THEN SyncSenderSendArm(variant)
                  ELSE SenderSendArm(variant)
       IN  IF arm = "unreachable"
           THEN /\ sres' = [sres EXCEPT ![h] = Unreachable("send", v)]
                /\ UNCHANGED <<sender, buf, parked, accepted>>
           ELSE IF disconnected
           THEN /\ sres' = [sres EXCEPT ![h] = SendResult(QErr("disconnected", v), v)]
                /\ UNCHANGED <<sender, buf, parked, accepted>>
           ELSE IF variant = "Unbounded" \/ (variant = "Bounded" /\ HasRoom(buf, bound))
           THEN /\ buf' = Push(buf, v)
                /\ accepted' = Append(accepted, v)
                /\ sres' = [sres EXCEPT ![h] = SendResult(QOk, v)]
                /\ UNCHANGED <<sender, parked>>
           ELSE /\ parked' = Append(parked, [h |-> h, val |-> v])
                /\ sender' = [sender EXCEPT ![h] = "blocked"]
                /\ sres' = [sres EXCEPT ![h] = Sending("send", v)]
                /\ UNCHANGED <<buf, accepted>>
    /\ UNCHANGED <<lockVars, bound, variant, strong, receiver, disconnected,
                   rres, received>>

\* A sender parked in the bounded queue's send is woken: by disconnect() with
\* its payload back, or, when it is the oldest, by room in the buffer.
SendWake(h) ==
    /\ sender[h] = "blocked"
    /\ \E i \in 1 .. Len(parked) :
          /\ parked[i].h = h
          /\ LET v == parked[i].val
             IN  IF disconnected
                 THEN /\ sres' = [sres EXCEPT ![h] =
                                     SendResult(QErr("disconnected", v), v)]
                      /\ UNCHANGED <<buf, accepted>>
                 ELSE /\ variant = "Bounded" /\ i = 1 /\ HasRoom(buf, bound)
                      /\ buf' = Push(buf, v)
                      /\ accepted' = Append(accepted, v)
                      /\ sres' = [sres EXCEPT ![h] = SendResult(QOk, v)]
          /\ parked' = Without(parked, i)
    /\ sender' = [sender EXCEPT ![h] = "live"]
    /\ UNCHANGED <<lockVars, bound, variant, strong, receiver, disconnected,
                   sent, rres, received>>

\* SyncSender::try_send.  The bounded queue's try_send gives Err(Err(t)) once
\* disconnect() has been invoked, Err(Ok(t)) when the buffer is full.
TrySend(h) ==
    /\ IsSyncSender
    /\ sender[h] = "live" /\ SendsStarted < MaxSends
    /\ sent' = [sent EXCEPT ![h] = @ + 1]
    /\ LET v == NextMessage(h)
       IN  IF SyncSenderTrySendArm(variant) = "unreachable"
           THEN /\ sres' = [sres EXCEPT ![h] = Unreachable("try_send", v)]
                /\ UNCHANGED <<buf, accepted>>
           ELSE IF disconnected
           THEN /\ sres' = [sres EXCEPT ![h] =
                               TrySendResult(QErr("disconnected", v), v)]
                /\ UNCHANGED <<buf, accepted>>
           ELSE IF ~HasRoom(buf, bound)
           THEN /\ sres' = [sres EXCEPT ![h] = TrySendResult(QErr("full", v), v)]
                /\ UNCHANGED <<buf, accepted>>
           ELSE /\ buf' = Push(buf, v)
                /\ accepted' = Append(accepted, v)
                /\ sres' = [sres EXCEPT ![h] = TrySendResult(QOk, v)]
    /\ UNCHANGED <<lockVars, bound, variant, strong, sender, receiver,
                   disconnected, parked, rres, received>>

\* ---------------------------------------------------------------- receiving
\* The queue has a message for the receiver: a buffered one, or on the
\* rendezvous queue a parked sender's payload.
Available == IF variant = "Rendezvous" THEN parked # << >> ELSE buf # << >>

\* The receiver's call o takes the oldest message and returns it.
Take(o) ==
    IF variant = "Rendezvous"
    THEN LET e == Head(parked)
         IN  /\ parked' = Tail(parked)
             /\ sender' = [sender EXCEPT ![e.h] = "live"]
             /\ sres' = [sres EXCEPT ![e.h] = SendResult(QOk, e.val)]
             /\ accepted' = Append(accepted, e.val)
             /\ received' = Append(received, e.val)
             /\ rres' = Returned(o, "value", e.val)
             /\ buf' = buf
    ELSE /\ buf' = Tail(buf)
         /\ received' = Append(received, Head(buf))
         /\ rres' = Returned(o, "value", Head(buf))
         /\ UNCHANGED <<parked, sender, sres, accepted>>

\* The receiver's call o returns without a message: r is "disconnected" or
\* "none".
TakeNothing(o, r) ==
    /\ rres' = Returned(o, r, NoMessage)
    /\ UNCHANGED <<buf, parked, sender, sres, accepted, received>>

\* Receiver::try_recv.
TryRecv ==
    /\ receiver = "live"
    /\ IF Available THEN Take("try_recv")
       ELSE TakeNothing("try_recv", IF disconnected THEN "disconnected" ELSE "none")
    /\ UNCHANGED <<lockVars, bound, variant, strong, receiver, disconnected, sent>>

\* Receiver::recv and Receiver::recv_timeout are called: chan.recv(None),
\* chan.recv(Some(timeout)).
RecvCall ==
    /\ receiver = "live"
    /\ receiver' \in {"recv", "recv_timeout"}
    /\ UNCHANGED <<lockVars, bound, variant, strong, sender, queue, sent, results>>

\* The queue's recv returns: with the oldest message, or with Err(()) when
\* there is none and disconnect() has been invoked; it waits otherwise.
RecvReturn ==
    /\ receiver \in {"recv", "recv_timeout"}
    /\ Available \/ disconnected
    /\ IF Available THEN Take(receiver) ELSE TakeNothing(receiver, "disconnected")
    /\ receiver' = "live"
    /\ UNCHANGED <<lockVars, bound, variant, strong, disconnected, sent>>

\* The timeout of recv_timeout fires; the queue is looked at once more and
\* has nothing: Ok(None).
RecvTimeout ==
    /\ receiver = "recv_timeout"
    /\ ~Available /\ ~disconnected
    /\ TakeNothing("recv_timeout", "none")
    /\ receiver' = "live"
    /\ UNCHANGED <<lockVars, bound, variant, strong, disconnected, sent>>

\* Receiver::recv_deadline(deadline).  deadline.checked_duration_since(now) is
\* Some when the deadline is not yet past, and the call is recv_timeout with
\* what is left; it is None when the deadline is past, and the call is one
\* try_recv whose Empty becomes Timeout.
RecvDeadline ==
    /\ receiver = "live"
    /\ \E past \in BOOLEAN :
          IF past
          THEN /\ IF Available THEN Take("recv_deadline")
                  ELSE TakeNothing("recv_deadline",
                                   IF disconnected THEN "disconnected" ELSE "none")
               /\ receiver' = receiver
          ELSE /\ receiver' = "recv_timeout"
               /\ UNCHANGED <<queue, sender, results>>
    /\ UNCHANGED <<lockVars, bound, variant, strong, disconnected, sent>>

\* ------------------------------------------------------------ specification
ChanNext ==
    \/ \E h \in Handles :
          \/ SenderClone(h)
          \/ SenderDropCheck(h)
          \/ SenderDropDisconnect(h)
          \/ SenderRelease(h)
          \/ Send(h)
          \/ SendWake(h)
          \/ TrySend(h)
    \/ ReceiverDropCheck
    \/ ReceiverDropDisconnect
    \/ ReceiverRelease
    \/ TryRecv
    \/ RecvCall
    \/ RecvReturn
    \/ RecvTimeout
    \/ RecvDeadline

ChanSpec == ChanInit /\ [][ChanNext]_vars

\* ======================================================= claims: the channel
\* The Receiver has not been dropped: it is idle or inside a receive call.
ReceiverAlive == receiver \in {"live", "recv", "recv_timeout"}
\* Every sender handle that was ever made has been dropped for good.
NoSenderLeft == \A h \in Handles : sender[h] \in {"none", "dropped"}
\* Handle h is usable: not being dropped, not dropped.
SenderInUse(h) == sender[h] \in {"live", "blocked"}

\* C11: once the last sender handle of a channel has been dropped while the
\* Receiver is alive, disconnect has been invoked on the queue, whatever the
\* interleaving of the drops of the handles.
C11_LastSenderDropDisconnects ==
    ReceiverAlive /\ NoSenderLeft => disconnected

\* A call of the Receiver returns in this step.
RecvDeadlinePast == RecvDeadline /\ receiver' = "live"
ReceiveReturns == TryRecv \/ RecvReturn \/ RecvTimeout \/ RecvDeadlinePast

\* C12: after all senders have been dropped, a receive call returns the
\* oldest buffered message while there is one and the disconnected error once
\* the buffer is empty; no sent message is lost.
C12_DrainThenDisconnected ==
    [][NoSenderLeft /\ ReceiveReturns =>
          IF buf # << >>
          THEN rres'.tag = "Ok" /\ rres'.val = Head(buf) /\ buf' = Tail(buf)
          ELSE rres'.tag \in {"RecvError", "Disconnected"}]_vars

\* The flag is raised in this step by the drop of a sender handle.
SenderInvokesDisconnect(h) == sender[h] = "disconnecting" /\ SenderDropDisconnect(h)

\* C13: a receive call returns the disconnected error only when no sender
\* handle is left in use, and while the Receiver is alive the drop of a
\* sender handle invokes disconnect only if no other handle is in use.
C13_DisconnectedOnlyWithoutSenders ==
    [][/\ ReceiveReturns /\ rres'.tag \in {"RecvError", "Disconnected"} =>
              \A h \in Handles : ~SenderInUse(h)
       /\ \A h \in Handles :
              ReceiverAlive /\ SenderInvokesDisconnect(h) =>
                  \A g \in Handles : ~SenderInUse(g)]_vars

\* A receive call has returned the disconnected error, after the drop of the
\* last of several sender handles raised the flag with the Receiver alive.
C13_Witness ==
    /\ rres.tag \in {"RecvError", "Disconnected"}
    /\ ReceiverAlive
    /\ disconnected
    /\ Cardinality({h \in Handles : sender[h] # "none"}) >= 2

\* Handle h makes a send or try_send call in this step.
SendStarts(h) == Send(h) \/ TrySend(h)
\* The result that gives a send its payload back as disconnected.
DisconnectedWith(r, v) ==
    /\ r.tag = IF r.op = "send" THEN "SendError" ELSE "Disconnected"
    /\ r.val = v

\* C14: once the Receiver is dropped with a sender handle still in use,
\* disconnect has been invoked, every send or try_send made afterwards
\* returns the disconnected error with its own payload, and so does every
\* send that was blocked.
C14_SendersFailAfterReceiverDrop ==
    [][/\ receiver = "dropped" /\ (\E h \in Handles : SenderInUse(h)) =>
              disconnected
       /\ \A h \in Handles :
              /\ receiver = "dropped" /\ SendStarts(h) =>
                     DisconnectedWith(sres'[h], NextMessage(h))
              /\ receiver = "dropped" /\ SendWake(h) =>
                     DisconnectedWith(sres'[h], sres[h].passed)]_vars

\* No receiver is waiting in a receive call.
NoReceiverWaiting == receiver \notin {"recv", "recv_timeout"}

\* C15: on the channel of sync_channel(0), with the Receiver alive, a
\* try_send made while no receiver is waiting returns Full with the value it
\* was passed, and a send made then blocks.
C15_RendezvousFullOrBlocks ==
    [][\A h \in Handles :
          bound = 0 /\ ReceiverAlive /\ NoReceiverWaiting /\ ~disconnected =>
              /\ TrySend(h) =>
                     sres'[h].tag = "Full" /\ sres'[h].val = NextMessage(h)
              /\ Send(h) => sender'[h] = "blocked"]_vars

\* The values a sequence holds.
Range(q) == {q[i] : i \in 1 .. Len(q)}
\* The result is one of the errors that carry the payload.
IsSendFailure(r) == r.tag \in {"SendError", "Full", "Disconnected"}
\* The values the queue holds or has handed to the receiver.
Delivered == Range(buf) \cup Range(received) \cup Range(accepted)

\* C16: a send or try_send that failed has returned, in its error, the value
\* it was passed, and this value is not in the queue and was not received;
\* the conversion of a SendError gives Disconnected with the same value.
C16_FailedSendReturnsPayload ==
    \A h \in Handles :
        IsSendFailure(sres[h]) =>
            /\ sres[h].val = sres[h].passed
            /\ sres[h].val # NoMessage
            /\ sres[h].val \notin Delivered
            /\ sres[h].tag = "SendError" =>
                   /\ FromSendError(sres[h]).tag = "Disconnected"
                   /\ FromSendError(sres[h]).val = sres[h].passed

\* One handle was refused with Full, another with SendError, and the
\* receiver has taken a message that was sent with success.
C16_Witness ==
    /\ \E h \in Handles : sres[h].tag = "Full" /\ sres[h].val = sres[h].passed
    /\ \E h \in Handles : sres[h].tag = "SendError" /\ sres[h].val = sres[h].passed
    /\ received # << >>

\* How many times value v stands in sequence q.
Occurrences(q, v) == Cardinality({i \in 1 .. Len(q) : q[i] = v})

C18_FifoOrder ==
    variant # "Rendezvous" =>
        /\ accepted = received \o buf
        /\ \A i, j \in 1 .. Len(received) :
               i < j =>
                   /\ received[i] # received[j]
                   /\ received[i][1] = received[j][1] =>
                          received[i][2] < received[j][2]

\* Three messages were received, two of one sender and one of another.
C18_Witness ==
    /\ variant # "Rendezvous"
    /\ Len(received) = 3
    /\ \E i, j \in 1 .. 3 : received[i][1] # received[j][1]
    /\ \E i, j \in 1 .. 3 : i < j /\ received[i][1] = received[j][1]

\* The Receiver is past the disconnect of its drop.
ReceiverGone == receiver \in {"releasing", "dropped"}
\* What try_send is to answer on a bounded channel.
TrySendAnswer ==
    IF ReceiverGone THEN "Disconnected"
    ELSE IF Len(buf) = bound THEN "Full"
    ELSE "Ok"

Holders ==
    Cardinality({h \in Handles : sender[h] \notin {"none", "dropped"}})
        + (IF receiver = "dropped" THEN 0 ELSE 1)

\* C20: channel() builds an unbounded queue, sync_channel(0) a rendezvous
\* queue, sync_channel(n) with n > 0 a bounded queue of capacity n; the
\* constructor returns one sender handle and one Receiver on one shared
\* channel, and the variant and its capacity never change.
C20_VariantByCapacity ==
    /\ Cardinality({h \in Handles : sender[h] = "live"}) = 1
    /\ receiver = "live" /\ strong = 2
    /\ [](/\ bound = NoBound => variant = "Unbounded"
          /\ bound = 0 => variant = "Rendezvous"
          /\ bound > 0 => variant = "Bounded"
          /\ strong = Holders)
    /\ [][variant' = variant /\ bound' = bound]_vars

\* A channel of sync_channel(0) after use: its handle was cloned, a send was
\* made and the Receiver was dropped.
C20_Witness ==
    /\ bound = 0 /\ variant = "Rendezvous"
    /\ receiver = "dropped"
    /\ \E h \in Handles : sres[h].op # "none"
    /\ Cardinality({h \in Handles : sender[h] # "none"}) >= 2

\* C21: recv_deadline called past its deadline returns in the same step: the
\* oldest buffered value if there is one, else Disconnected if disconnect has
\* been invoked, else Timeout.
C21_RecvDeadlinePast ==
    [][RecvDeadlinePast =>
          /\ rres'.op = "recv_deadline"
          /\ IF buf # << >>
             THEN rres'.tag = "Ok" /\ rres'.val = Head(buf) /\ buf' = Tail(buf)
             ELSE /\ rres'.tag = IF disconnected THEN "Disconnected" ELSE "Timeout"
                  /\ rres'.val = NoMessage
                  /\ buf' = buf]_vars

\* A recv_deadline past its deadline has returned Disconnected on a channel
\* whose last sender was dropped, after the buffered messages were received.
C21_Witness ==
    /\ rres.op = "recv_deadline" /\ rres.tag = "Disconnected"
    /\ receiver = "live" /\ disconnected
    /\ received # << >>

\* ============================================ claims: the queue of the lock
\* C22: a shared release that finds waiters queued takes one off the counter
\* of the tail waiter; with readers left it returns and wakes nobody; as the
\* last reader it does not return before the unpark path has run.
C22_LastReaderHandsOver ==
    [][\A t \in Threads :
          UnlockSharedDecrement(t) =>
              /\ counter'[tl[t]] = counter[tl[t]] - 1
              /\ counter[tl[t]] > 1 =>
                     pc'[t] = "idle" /\ parker' = parker /\ word' = word
              /\ counter[tl[t]] = 1 => pc'[t] # "idle"]_vars

\* Places inside unpark where the thread still owns QUEUE_LOCKED.
UnparkOwning == {"unpark_release", "unpark_link", "unpark_fetch_and", "unpark_cas"}
\* Thread t works on the queue under QUEUE_LOCKED.
InQueuePath(t) == pc[t] \in UnparkOwning \cup {"lq_link", "lq_cas"}
\* Thread t's exclusive release ends in this step without running unpark.
ReleaserSkipsUnpark(t) ==
    /\ UnlockExclusive(t) \/ UnlockExclusiveSlowCas(t)
    /\ pc'[t] = "idle"
\* Thread t gives QUEUE_LOCKED back in this step without unparking anyone.
OwnerSkipsUnpark(t) ==
    /\ LinkQueueRelease(t) \/ UnparkRelease(t)
    /\ pc'[t] \in {"idle", "park"}
\* After this step some thread other than t holds the lock and has its
\* release to make.
HeldAfterBy(t) ==
    \E u \in Threads : u # t /\ (hx'[u] \/ hs'[u] > 0 \/ op'[u] = "unlock_shared")

\* C23: an exclusive release that leaves waiters queued and does not run
\* unpark itself leaves QUEUE_LOCKED with its owner or the lock with a new
\* holder; the owner of QUEUE_LOCKED gives it back without unparking only
\* when the lock is held; and no two threads are inside unpark under
\* QUEUE_LOCKED.
C23_OneThreadUnparks ==
    [][/\ \A t \in Threads :
              /\ ReleaserSkipsUnpark(t) /\ Has(word', QUEUED) =>
                     \/ Has(word', QUEUE_LOCKED) /\ (\E u \in Threads : InQueuePath(u))
                     \/ Has(word', LOCKED) /\ HeldAfterBy(t)
              /\ OwnerSkipsUnpark(t) => Has(word', LOCKED) /\ HeldAfterBy(t)
       /\ Cardinality({t \in Threads : pc[t] \in UnparkOwning}) <= 1]_vars

\* The waiters in the queue the word names: from the head along `next`.
RECURSIVE ChainFrom(_, _)
ChainFrom(w, fuel) ==
    IF w = NoWaiter \/ fuel = 0 THEN {}
    ELSE {w} \cup ChainFrom(next[w], fuel - 1)
QueuedWaiters == IF Has(word, QUEUED) THEN ChainFrom(HeadOf(word), NThreads) ELSE {}
\* Thread t owns QUEUE_LOCKED: it is inside link_queue_or_unpark or unpark
\* and has not given the bit back.
OwnsQueueLock(t) == InQueuePath(t)
OwnsQueueLockAfter(t) == pc'[t] \in UnparkOwning \cup {"lq_link", "lq_cas"}
\* The step writes the prev or tail link of a waiter that is in the queue.
WritesQueueLinks ==
    \E w \in QueuedWaiters : prev'[w] # prev[w] \/ tail'[w] # tail[w]

\* C24: at most one thread owns QUEUE_LOCKED, the bit is set while it is
\* owned, a thread comes to own it only by the step that sets the bit, and a
\* step that writes the prev or tail link of a queued waiter is made by the
\* owner.
C24_QueueLockOwnership ==
    [][/\ Cardinality({t \in Threads : OwnsQueueLock(t)}) <= 1
       /\ \A t \in Threads :
              /\ OwnsQueueLock(t) => Has(word, QUEUE_LOCKED)
              /\ ~OwnsQueueLock(t) /\ OwnsQueueLockAfter(t) =>
                     ~Has(word, QUEUE_LOCKED) /\ Has(word', QUEUE_LOCKED)
              /\ Step(t) /\ WritesQueueLinks => OwnsQueueLock(t)]_vars

\* C25: QUEUE_LOCKED is set in the word only while the thread that set it is
\* inside link_queue_or_unpark or unpark: a thread that has returned, parked
\* or died has given the bit back.  unpark_requeue run on the word publishes
\* the bit as it found it, and where it goes on to link_queue_or_unpark
\* without the bit it stops at the assert.
C25_QueueLockReleased ==
    /\ Has(word, QUEUE_LOCKED) => \E t \in Threads : OwnsQueueLock(t)
    /\ \A w \in Threads :
           /\ Has(UnparkRequeueState(w, word), QUEUE_LOCKED) <=> Has(word, QUEUE_LOCKED)
           /\ UnparkRequeueAfter(w, word) \in {"return", "panic"}

\* A thread that enqueued behind another set QUEUE_LOCKED, linked the queue,
\* gave the bit back and is parked as the head.
C25_Witness ==
    \E t \in Threads :
        /\ Parked(t) /\ HeadOf(word) = t
        /\ next[t] # NoWaiter /\ tail[t] # NoWaiter
        /\ Has(word, QUEUED) /\ ~Has(word, QUEUE_LOCKED)

\* C26: a thread that lock_exclusive has put in the queue carries flags = 1,
\* one that lock_shared has put there carries flags = 0.
C26_WriterFlag ==
    \A t \in Threads :
        pc[t] = "park" =>
            /\ op[t] = "lock_exclusive" => flags[t] = 1
            /\ op[t] = "lock_shared" => flags[t] = 0

\* unpark of thread t, LOCKED clear in its state, finds at the tail a waiter
\* of lock_exclusive that has a newer neighbour.
WriterTailWithNeighbour(t) ==
    LET q == GetAndLinkQueue(st[t])
    IN  /\ pc[t] = "unpark_link" /\ q.ok
        /\ op[q.t] = "lock_exclusive"
        /\ q.prev[q.t] # NoWaiter

\* C27: when unpark runs with LOCKED clear and the tail is a writer with a
\* newer neighbour, the cached tail of the head moves to that neighbour and
\* the writer is taken off alone: QUEUE_LOCKED is given back, QUEUED stays,
\* and the wake-up walk started at the writer stops after it.
C27_OneWriterWoken ==
    [][\A t \in Threads :
          /\ UnparkLink(t) /\ WriterTailWithNeighbour(t) =>
                /\ pc'[t] = "unpark_fetch_and"
                /\ tail'[hd'[t]] = GetAndLinkQueue(st[t]).prev[tl'[t]]
          /\ UnparkDequeue(t) /\ op[tl[t]] = "lock_exclusive" /\ prev[tl[t]] # NoWaiter =>
                /\ Has(word', QUEUED) /\ ~Has(word', QUEUE_LOCKED)
                /\ prev'[tl[t]] = NoWaiter
                /\ parker' = parker]_vars

\* The waiters unpark_waiters(w) reaches: from w along `prev`.
RECURSIVE WalkFrom(_, _)
WalkFrom(w, fuel) ==
    IF w = NoWaiter \/ fuel = 0 THEN {}
    ELSE {w} \cup WalkFrom(prev[w], fuel - 1)

\* Thread t is at the compare-exchange of unpark that takes the whole queue.
AtClearQueue(t) == pc[t] = "unpark_cas"

\* C28: the compare-exchange of unpark that takes the whole queue off clears
\* the head pointer, QUEUED and QUEUE_LOCKED and leaves LOCKED and READING;
\* the wake-up walk that follows starts at the tail, reaches every waiter
\* that was in the queue and unparks each one it visits; when the
\* compare-exchange fails nobody is woken, the word is left alone and unpark
\* starts over with the word it read.
C28_ClearQueueWakesAll ==
    [][\A t \in Threads :
          /\ UnparkDequeue(t) /\ AtClearQueue(t) /\ word = st[t] =>
                /\ Upper(word') = 0
                /\ ~Has(word', QUEUED) /\ ~Has(word', QUEUE_LOCKED)
                /\ Has(word', LOCKED) <=> Has(word, LOCKED)
                /\ Has(word', READING) <=> Has(word, READING)
                /\ parker' = parker
                /\ pc'[t] = "unpark_waiters"
                /\ WalkFrom(tl'[t], NThreads) = QueuedWaiters
          /\ UnparkDequeue(t) /\ AtClearQueue(t) /\ word # st[t] =>
                /\ word' = word /\ parker' = parker
                /\ st'[t] = word
                /\ pc'[t] = UnparkEntry(word)
          /\ UnparkWaiters(t) =>
                /\ parker'[tl[t]] = "notified"
                /\ \A w \in Threads \ {tl[t]} : parker'[w] = parker[w]
                /\ IF prev[tl[t]] # NoWaiter
                   THEN pc'[t] = "unpark_waiters" /\ tl'[t] = prev[tl[t]]
                   ELSE pc'[t] # "unpark_waiters"]_vars

\* The compare-exchange has taken a queue of two waiters and the walk has
\* woken the older one and stands at the newer.
C28_Witness ==
    \E t \in Threads :
        /\ pc[t] = "unpark_waiters"
        /\ ~Has(word, QUEUED) /\ Upper(word) = 0
        /\ \E w \in Threads \ {tl[t]} : parker[w] = "notified" /\ prev[w] = tl[t]

\* unpark of thread t gives QUEUE_LOCKED back because LOCKED is set.
UnparkBacksOff(t) == UnparkRelease(t) /\ word = st[t]

\* C29: when unpark finds LOCKED set, its compare-exchange clears
\* QUEUE_LOCKED and nothing else: nobody is unparked, the queue, its head
\* pointer and QUEUED stay, and the thread leaves unpark.  The waiters are
\* left to the release of the holder: an unlock_exclusive that finds QUEUED
\* without QUEUE_LOCKED clears LOCKED and goes on to take QUEUE_LOCKED, and
\* with that it enters unpark.
C29_LockedUnparkBacksOff ==
    [][\A t \in Threads :
          /\ UnparkBacksOff(t) =>
                /\ word' = Clear(word, QUEUE_LOCKED)
                /\ Has(word', QUEUED) /\ Has(word', LOCKED)
                /\ Upper(word') = Upper(word)
                /\ parker' = parker
                /\ UNCHANGED waiterVars
                /\ ~OwnsQueueLockAfter(t)
          /\ UnlockExclusive(t) /\ Has(word, QUEUED) /\ ~Has(word, QUEUE_LOCKED) =>
                /\ ~Has(word', LOCKED)
                /\ pc'[t] = "uxs_cas"
          /\ UnlockExclusiveSlowCas(t) /\ word = st[t] =>
                pc'[t] \in {"unpark_link", "unpark_release"}]_vars

\* Thread t's compare-exchange in lock() publishes it as the first waiter.
FirstEnqueue(t) == LockEnqueue(t) /\ ~Has(st[t], QUEUED) /\ word = st[t]

\* C30: the word published by an enqueue made while QUEUED is clear keeps
\* LOCKED, READING and QUEUE_LOCKED as they were, has QUEUED set and the
\* address of the waiter in its upper bits; the waiter's counter is the
\* previous upper bits, its tail is itself and its next is null.
C30_FirstEnqueue ==
    [][\A t \in Threads : FirstEnqueue(t) =>
          /\ Has(word', LOCKED) <=> Has(word, LOCKED)
          /\ Has(word', READING) <=> Has(word, READING)
          /\ Has(word', QUEUE_LOCKED) <=> Has(word, QUEUE_LOCKED)
          /\ Has(word', QUEUED)
          /\ Upper(word') = t
          /\ counter'[t] = Upper(word)
          /\ tail'[t] = t
          /\ next'[t] = NoWaiter]_vars

\* A first waiter behind two readers: it is the head, its own tail, and its
\* counter holds the two readers the word counted.
C30_Witness ==
    \E t \in Threads :
        /\ pc[t] = "park" /\ HeadOf(word) = t
        /\ Has(word, QUEUED) /\ Has(word, READING) /\ Has(word, LOCKED)
        /\ tail[t] = t /\ next[t] = NoWaiter /\ counter[t] = 2

\* Thread t's compare-exchange in lock() publishes it in front of a queue.
PrependEnqueue(t) == LockEnqueue(t) /\ Has(st[t], QUEUED) /\ word = st[t]
\* Thread t is inside the call of link_queue_or_unpark that lock() makes.
InLockQueueWork(t) ==
    /\ op[t] \in {"lock_exclusive", "lock_shared"}
    /\ InQueuePath(t) \/ pc[t] = "unpark_waiters"

\* C31: an enqueue made while QUEUED is set makes the thread the new head
\* with next = old head and no cached tail, and publishes QUEUE_LOCKED; the
\* thread goes into link_queue_or_unpark exactly when the bit was clear in the
\* word its compare-exchange replaced, and otherwise parks at once; a thread
\* that went in parks when it comes out.
C31_PrependEnqueue ==
    [][\A t \in Threads :
          /\ PrependEnqueue(t) =>
                /\ Upper(word') = t
                /\ next'[t] = HeadOf(word) /\ next'[t] # NoWaiter
                /\ tail'[t] = NoWaiter
                /\ Has(word', QUEUED) /\ Has(word', QUEUE_LOCKED)
                /\ LowBits(word') = Set(LowBits(word), QUEUE_LOCKED)
                /\ IF Has(word, QUEUE_LOCKED)
                   THEN pc'[t] = "park"
                   ELSE pc'[t] \in UnparkOwning \cup {"lq_link"}
          /\ InLockQueueWork(t) /\ pc'[t] # pc[t] =>
                \/ pc'[t] \in UnparkOwning \cup {"lq_link", "lq_cas", "unpark_waiters"}
                \/ pc'[t] = "park"]_vars

\* A thread has enqueued in front of a parked waiter, took QUEUE_LOCKED with
\* it and stands in link_queue_or_unpark.
C31_Witness ==
    \E t \in Threads :
        /\ pc[t] = "lq_link" /\ op[t] = "lock_exclusive"
        /\ HeadOf(word) = t /\ next[t] # NoWaiter /\ tail[t] = NoWaiter
        /\ Has(word, QUEUE_LOCKED) /\ Parked(next[t])

\* C32: in the lock word READING implies LOCKED; with LOCKED and QUEUED both
\* clear the upper bits are zero; and with LOCKED clear no thread holds the
\* lock exclusively.
C32_WordShape ==
    /\ Has(word, READING) => Has(word, LOCKED)
    /\ ~Has(word, LOCKED) /\ ~Has(word, QUEUED) => Upper(word) = 0
    /\ ~Has(word, LOCKED) => ExclusiveHolders = {}

\* Two readers are counted in a word without a queue, and one of them has
\* come in after another acquire call was made.
C32_Witness ==
    /\ Has(word, READING) /\ Has(word, LOCKED) /\ ~Has(word, QUEUED)
    /\ Upper(word) = 2
    /\ calls > 2 /\ \E t \in Threads : hs[t] > 0

\* The waiter nodes a thread can come to from the lock word: the chain from
\* the head along `next`, and the tails cached in it.
ReachableWaiters ==
    (QueuedWaiters \cup {tail[w] : w \in QueuedWaiters}) \ {NoWaiter}
\* Thread w is inside lock() between publishing its node and being unparked:
\* parked, or still in the call of link_queue_or_unpark it makes before.
WaiterInPlace(w) ==
    /\ op[w] \in {"lock_exclusive", "lock_shared"}
    /\ Parked(w) \/ InLockQueueWork(w)
\* The walk of unpark_waiters over the links pv, from w.
RECURSIVE WalkIn(_, _, _)
WalkIn(pv, w, fuel) ==
    IF w = NoWaiter \/ fuel = 0 THEN {}
    ELSE {w} \cup WalkIn(pv, pv[w], fuel - 1)
\* The steps of unpark_waiters: the waiter it unparks is off the queue, and
\* the rest of the walk, along the prev read before, does not come back to it.
UnparksDetached ==
    \A t \in Threads : UnparkWaiters(t) =>
        /\ tl[t] \notin ReachableWaiters
        /\ pc'[t] = "unpark_waiters" => tl[t] \notin WalkIn(prev', tl'[t], NThreads)

\* C33, as stated: a waiter node reachable from the lock word belongs to a
\* parked thread.
C33_ReachableOnlyParked ==
    /\ [](\A w \in ReachableWaiters : Parked(w))
    /\ [][UnparksDetached]_vars

\* C33, amended: a waiter node reachable from the lock word, or still ahead
\* of a walk of unpark_waiters, belongs to a thread that is parked or is
\* running link_queue_or_unpark inside lock() on its way to park; a waiter is
\* off the queue when it is unparked, and the walk does not come back to it.
C33_ReachableOnlyInLock ==
    /\ [](\A w \in ReachableWaiters : WaiterInPlace(w))
    /\ [](\A t \in Threads : pc[t] = "unpark_waiters" =>
             \A w \in WalkIn(prev, tl[t], NThreads) : WaiterInPlace(w))
    /\ [][UnparksDetached]_vars

\* A walk of unpark_waiters has unparked the oldest of two waiters, which is
\* off the queue, and stands at the newer one, which is still parked.
C33_Witness ==
    \E t \in Threads : \E w \in Threads \ {tl[t]} :
        /\ pc[t] = "unpark_waiters"
        /\ parker[w] = "notified" /\ pc[w] = "park" /\ prev[w] = tl[t]
        /\ Parked(tl[t])
        /\ w \notin ReachableWaiters

\* C34: unpark_waiters unparks a waiter whose parker holds no notification
\* and whose thread is in the park cycle of the node being walked; so no
\* waiter gets two unparks for one park.
C34_UnparkedOncePerPark ==
    [][\A t \in Threads : UnparkWaiters(t) =>
          /\ parker[tl[t]] = "empty"
          /\ WaiterInPlace(tl[t])
          /\ \A u \in Threads \ {t} : pc[u] = "unpark_waiters" =>
                tl[t] \notin WalkIn(prev, tl[u], NThreads)]_vars

\* Two walks of unpark_waiters run at the same time, over different waiters.
C34_Witness ==
    \E t, u \in Threads :
        /\ t # u /\ pc[t] = "unpark_waiters" /\ pc[u] = "unpark_waiters"
        /\ tl[t] # tl[u]

\* C35: the word unpark_requeue publishes over a word that has QUEUED has
\* QUEUE_LOCKED set, and the call of link_queue_or_unpark it goes on to,
\* when the bit was clear before, passes the entry assertions.
C35_RequeueTakesQueueLock ==
    \A queue_head \in Threads :
        Has(word, QUEUED) =>
            /\ Has(UnparkRequeueState(queue_head, word), QUEUE_LOCKED)
            /\ UnparkRequeueAfter(queue_head, word) # "panic"

\* No thread has stopped at a failed assertion of the lock's own operations.
NoThreadPanicked == \A t \in Threads : pc[t] # "panic"

\* C36: no assertion of unlock_exclusive_slow, unlock_shared_slow,
\* link_queue_or_unpark, unpark, unpark_waiters or lock fails: no thread has
\* stopped at one, and a call of unpark_requeue made on the word as it stands
\* would not run into the entry assertions of link_queue_or_unpark.
C36_NoAssertionFails ==
    /\ NoThreadPanicked
    /\ \A queue_head \in Threads : UnparkRequeueAfter(queue_head, word) # "panic"

\* A writer holds the lock, or waiters are queued.
WriterOrQueue(w) == Has(w, QUEUED) \/ (Has(w, LOCKED) /\ ~Has(w, READING))

\* C37: a step of try_lock_shared taken while a writer holds the lock or
\* QUEUED is set leaves the word as it is and takes no hold; the fast path
\* does not succeed on such a word and the slow path that has loaded it
\* returns false; and no step of try_lock_shared writes a waiter, a parker,
\* or goes to the enqueue or to park.
C37_TryLockSharedRefuses ==
    [][\A t \in Threads :
          op[t] = "try_lock_shared" /\ pc'[t] # pc[t] =>
              /\ pc'[t] \in {"tlss_load", "tlss_try", "idle"}
              /\ UNCHANGED waiterVars /\ parker' = parker
              /\ WriterOrQueue(word) =>
                    /\ word' = word /\ hs'[t] = hs[t]
                    /\ TryLockSharedFast(t) => pc'[t] = "tlss_load"
                    /\ TryLockSharedSlow(t) /\ st[t] = word => pc'[t] = "idle"]_vars

\* try_lock_shared_slow is about to try on the word it has just loaded, which
\* counts a reader and has a waiter queued behind it.
C37_Witness ==
    \E t \in Threads :
        /\ op[t] = "try_lock_shared" /\ pc[t] = "tlss_try" /\ st[t] = word
        /\ Has(word, READING) /\ Has(word, QUEUED)
        /\ \E u \in Threads : hs[u] > 0

\* ------------------------------------------- claims: dispatch of the channel
\* C38: no send and no try_send ends in the `unreachable!` arm of its match
\* on the channel variant.
C38_NoInvalidChannelType == \A h \in Handles : sres[h].tag # "panic"

\* --------------------------------------------------- claims: queue repair
\* The owner of QUEUE_LOCKED, thread t, runs get_and_link_queue in this step.
OwnerRepairs(t) == LinkQueue(t) \/ UnparkLink(t)
\* The queue thread t repairs: from the head in its `state` along `next`.
RepairedQueue(t) == ChainFrom(HeadOf(st[t]), NThreads)
\* The oldest waiter of a queue: the one without a next.
Oldest(waiters) == CHOOSE w \in waiters : next[w] = NoWaiter

\* C39: after the owner of QUEUE_LOCKED has run get_and_link_queue from the
\* head in its state, the head's cached tail is the oldest waiter of the
\* queue, every waiter that has a next is the prev of that next, and the walk
\* along prev from the cached tail visits the waiters of the queue, each one
\* once, and ends at the head.
C39_RepairLinksQueue ==
    [][\A t \in Threads : OwnerRepairs(t) =>
          LET head == HeadOf(st[t])
              waiters == RepairedQueue(t)
          IN  /\ head # NoWaiter
              /\ \E w \in waiters : next[w] = NoWaiter
              /\ tail'[head] = Oldest(waiters)
              /\ \A n \in waiters : next[n] # NoWaiter => prev'[next[n]] = n
              /\ prev'[head] = NoWaiter
              /\ WalkIn(prev', tail'[head], NThreads) = waiters]_vars

\* The owner has repaired a queue of three waiters: the head caches the
\* oldest as its tail and the prev links lead back from it to the head.
C39_Witness ==
    \E t \in Threads :
        /\ pc[t] \in {"lq_cas", "unpark_cas"}
        /\ LET head == HeadOf(st[t])
           IN  /\ head # NoWaiter
               /\ Cardinality(ChainFrom(head, NThreads)) = 3
               /\ tail[head] # NoWaiter /\ prev[prev[tail[head]]] = head

=============================================================================
